---- MODULE Spec2Model ----
(***************************************************************************)
(* Model of the quantum circuit simulator of project.py: create_qubit,     *)
(* apply_gate, apply_cnot, simulate_circuit and calculate_probabilities.   *)
(*                                                                         *)
(* Amplitudes.  Every number the program can produce from the labels       *)
(* 0, 1, +, - with the gates H, X, Z, S, T and products of amplitudes lies *)
(* in the ring Z[w, 1/sqrt2], w = exp(i*pi/4).  An amplitude is the record *)
(*     [a, b, c, d, e]  =  (a + b*w + c*w^2 + d*w^3) / sqrt2^e             *)
(* with e as small as possible, so that two amplitudes are the same number *)
(* exactly when the records are equal.  numpy computes the same values in  *)
(* floating point; "equal" below is equality of the exact values, which is *)
(* what the tolerances of the specification (1e-6, 1e-8) stand for.        *)
(***************************************************************************)
EXTENDS Integers, Sequences, FiniteSets, TLC

\* ------------------------------------------------------------ bounds
MaxQubits == 3
MaxOps == 1
ProgLen == 2

\* ------------------------------------------------------------ numbers

\* The number (a + b*w + c*w^2 + d*w^3) / sqrt2^e, not yet reduced.
Raw(a, b, c, d, e) == [a |-> a, b |-> b, c |-> c, d |-> d, e |-> e]

\* x * sqrt2 on the numerator, sqrt2 = w - w^3.
TimesSqrt2(x) ==
    Raw(x.b - x.d, x.a + x.c, x.b + x.d, x.c - x.a, x.e)

\* A numerator is divisible by sqrt2 iff a+c and b+d are even.
DivisibleBySqrt2(x) == (x.a + x.c) % 2 = 0 /\ (x.b + x.d) % 2 = 0

\* numerator / sqrt2 = numerator * sqrt2 / 2
HalveSqrt2(x) ==
    Raw((x.b - x.d) \div 2, (x.a + x.c) \div 2,
        (x.b + x.d) \div 2, (x.c - x.a) \div 2, x.e - 1)

RECURSIVE Reduce(_)
Reduce(x) ==
    IF x.a = 0 /\ x.b = 0 /\ x.c = 0 /\ x.d = 0 THEN Raw(0, 0, 0, 0, 0)
    ELSE IF x.e > 0 /\ DivisibleBySqrt2(x) THEN Reduce(HalveSqrt2(x))
    ELSE x

RECURSIVE Lift(_, _)
\* The same number written over sqrt2^e, e >= x.e.
Lift(x, e) == IF x.e >= e THEN x ELSE Lift([TimesSqrt2(x) EXCEPT !.e = x.e + 1], e)

Max(m, n) == IF m >= n THEN m ELSE n

Zero == Raw(0, 0, 0, 0, 0)
One == Raw(1, 0, 0, 0, 0)

\* x + y (adding Zero needs no arithmetic)
Add(x, y) ==
    IF x = Zero THEN y
    ELSE IF y = Zero THEN x
    ELSE LET e == Max(x.e, y.e)
             p == Lift(x, e)
             q == Lift(y, e)
         IN  Reduce(Raw(p.a + q.a, p.b + q.b, p.c + q.c, p.d + q.d, e))

\* x * y: the product of the numerators modulo w^4 = -1 (a factor Zero or One
\* needs no arithmetic).
Mul(x, y) ==
    IF x = Zero \/ y = Zero THEN Zero
    ELSE IF x = One THEN y
    ELSE IF y = One THEN x
    ELSE Reduce(Raw(x.a * y.a - x.b * y.d - x.c * y.c - x.d * y.b,
               x.a * y.b + x.b * y.a - x.c * y.d - x.d * y.c,
               x.a * y.c + x.b * y.b + x.c * y.a - x.d * y.d,
               x.a * y.d + x.b * y.c + x.c * y.b + x.d * y.a,
               x.e + y.e))

Neg(x) == Raw(-x.a, -x.b, -x.c, -x.d, x.e)

\* Complex conjugate: conj(w) = -w^3.
Conj(x) == Raw(x.a, -x.d, -x.c, -x.b, x.e)

InvSqrt2 == Raw(1, 0, 0, 0, 1)      \* 1 / np.sqrt(2)
ImagUnit == Raw(0, 0, 1, 0, 0)      \* 1j
ExpIPi4 == Raw(0, 1, 0, 0, 0)       \* np.exp(1j * np.pi / 4)

\* np.abs(z) ** 2
AbsSquared(z) == Mul(z, Conj(z))

RECURSIVE SumSeq(_)
SumSeq(s) == IF s = << >> THEN Zero ELSE Add(Head(s), SumSeq(Tail(s)))

\* np.dot(matrix, vector): the matrix is a sequence of rows.
Dot(m, v) ==
    [i \in 1..Len(m) |-> SumSeq([j \in 1..Len(v) |-> Mul(m[i][j], v[j])])]

\* np.kron(u, v) of two vectors: entry (i-1)*len(v)+j is u[i]*v[j].
Kron(u, v) ==
    [n \in 1..(Len(u) * Len(v)) |->
        Mul(u[((n - 1) \div Len(v)) + 1], v[((n - 1) % Len(v)) + 1])]

\* ------------------------------------------------------------ Python values

\* The exceptions the program raises (class, message).
NoError == [exc |-> "None", msg |-> ""]
UnknownInitialState ==
    [exc |-> "ValueError", msg |-> "Unknown state: Use '0', '1', '+', or '-'"]
UnknownGate ==
    [exc |-> "ValueError", msg |-> "Unknown gate: Use \"H\", \"X\", \"Z\", \"S\", or \"T\""]
UnsupportedOperation ==
    [exc |-> "ValueError", msg |-> "Unknown or unsupported gate"]
InsufficientQubits ==
    [exc |-> "ValueError", msg |-> "CNOT requires at least 2 qubits"]
IndexOutOfRange ==
    [exc |-> "IndexError", msg |-> "list index out of range"]

\* The outcome of a call: a value, or an exception.
Returns(v) == [err |-> NoError, val |-> v]
Raises(e) == [err |-> e, val |-> << >>]

\* The outcome of a statement that works on the list of qubits: the exception
\* it ended with, if any, and the list as it then is.
Leaves(e, qs) == [err |-> e, qubits |-> qs]

\* Faulty variant of InRange: an index is accepted only from 0 up, as in a language
\* without negative indices.
InRange_NoNegative(list, i) == 0 <= i /\ i < Len(list)

\* list[i] of Python: i in -len..len-1, a negative i counts from the end.
InRange(list, i) == -Len(list) <= i /\ i < Len(list)
Position(list, i) == IF i >= 0 THEN i + 1 ELSE Len(list) + i + 1
GetItem(list, i) == list[Position(list, i)]
SetItem(list, i, v) == [list EXCEPT ![Position(list, i)] = v]

\* ------------------------------------------------------------ create_qubit

Labels == {"0", "1", "+", "-"}

create_qubit(state) ==
    IF state = "0" THEN Returns(<<One, Zero>>)
    ELSE IF state = "1" THEN Returns(<<Zero, One>>)
    ELSE IF state = "+" THEN Returns(<<InvSqrt2, InvSqrt2>>)
    ELSE IF state = "-" THEN Returns(<<InvSqrt2, Neg(InvSqrt2)>>)
    ELSE Raises(UnknownInitialState)

\* ------------------------------------------------------------ apply_gate

GateNames == {"H", "X", "Z", "S", "T"}

gates(name) ==
    CASE name = "H" -> << <<InvSqrt2, InvSqrt2>>, <<InvSqrt2, Neg(InvSqrt2)>> >>
      [] name = "X" -> << <<Zero, One>>, <<One, Zero>> >>
      [] name = "Z" -> << <<One, Zero>>, <<Zero, Neg(One)>> >>
      [] name = "S" -> << <<One, Zero>>, <<Zero, ImagUnit>> >>
      [] name = "T" -> << <<One, Zero>>, <<Zero, ExpIPi4>> >>

apply_gate(qubit, gate) ==
    IF gate \notin GateNames THEN Raises(UnknownGate)
    ELSE Returns(Dot(gates(gate), qubit))

\* ------------------------------------------------------------ apply_cnot

\* Faulty variant of cnot_matrix: the permutation swaps the first two amplitudes, the
\* pair of control |0>, instead of the last two.
cnot_matrix_SwapFirst ==
    << <<Zero, One, Zero, Zero>>,
       <<One, Zero, Zero, Zero>>,
       <<Zero, Zero, One, Zero>>,
       <<Zero, Zero, Zero, One>> >>

cnot_matrix ==
    << <<One, Zero, Zero, Zero>>,
       <<Zero, One, Zero, Zero>>,
       <<Zero, Zero, Zero, One>>,
       <<Zero, Zero, One, Zero>> >>

\* Faulty variant of apply_cnot: lines 81 and 82 in the other order, the control
\* written last.
apply_cnot_TargetFirst(qs, control, target) ==
    IF Len(qs) < 2 THEN Leaves(InsufficientQubits, qs)
    ELSE IF ~InRange(qs, control) \/ ~InRange(qs, target)
    THEN Leaves(IndexOutOfRange, qs)
    ELSE LET state_vector == Kron(GetItem(qs, control), GetItem(qs, target))
             new_state_vector == Dot(cnot_matrix, state_vector)
             afterTarget == SetItem(qs, target, SubSeq(new_state_vector, 3, 4))
         IN  Leaves(NoError, SetItem(afterTarget, control, SubSeq(new_state_vector, 1, 2)))

\* Both reads of line 68 come before the writes of lines 81-82, so a call
\* that raises leaves the list as it was.
apply_cnot(qs, control, target) ==
    IF Len(qs) < 2 THEN Leaves(InsufficientQubits, qs)
    ELSE IF ~InRange(qs, control) \/ ~InRange(qs, target)
    THEN Leaves(IndexOutOfRange, qs)
    ELSE LET state_vector == Kron(GetItem(qs, control), GetItem(qs, target))
             new_state_vector == Dot(cnot_matrix, state_vector)
             afterControl == SetItem(qs, control, SubSeq(new_state_vector, 1, 2))
         IN  Leaves(NoError, SetItem(afterControl, target, SubSeq(new_state_vector, 3, 4)))

\* ------------------------------------------------------------ calculate_probabilities

RECURSIVE KronAll_Reversed(_, _)
\* Faulty variant of KronAll: kron(qubit, state_vector), qubit 0 least significant.
KronAll_Reversed(state_vector, rest) ==
    IF rest = << >> THEN state_vector
    ELSE KronAll_Reversed(Kron(Head(rest), state_vector), Tail(rest))

RECURSIVE KronAll(_, _)
\* the loop of lines 94-95: state_vector = kron(state_vector, qubit)
KronAll(state_vector, rest) ==
    IF rest = << >> THEN state_vector
    ELSE KronAll(Kron(state_vector, Head(rest)), Tail(rest))

calculate_probabilities(qs) ==
    LET state_vector == IF Len(qs) = 1 THEN qs[1] ELSE KronAll(qs[1], Tail(qs))
    IN  [n \in 1..Len(state_vector) |-> AbsSquared(state_vector[n])]

\* ------------------------------------------------------------ inputs

\* Labels and gate names a caller can pass: the valid ones and one that is not.
LabelInputs == Labels \cup {"2"}
GateInputs == GateNames \cup {"Y"}

\* Qubit indices a caller can pass for n qubits: every valid one and one
\* beyond each end.
IndexInputs(n) == (-(n + 1))..n

\* An operation is a Python tuple: (index, gate), ('CNOT', control, target),
\* or anything else.
SingleQubitOps(n) == {<<i, g>> : i \in IndexInputs(n), g \in GateInputs}
TwoQubitOps(n) == {<<"CNOT", c, t>> : c \in IndexInputs(n), t \in IndexInputs(n)}
OtherOps == {<<"SWAP", 0, 1>>, <<0>>}
Operations(n) == SingleQubitOps(n) \cup TwoQubitOps(n) \cup OtherOps

\* The operations the fixed programs of SpecProg are made of: a valid, a
\* negative and a too large index, a real, a second and an unknown gate, CNOT
\* both ways and out of range, and an unsupported tuple.
ProgOperations(n) ==
    {<<i, g>> : i \in {0, -1, n}, g \in {"H", "X", "Y"}}
        \cup {<<"CNOT", 0, 1>>, <<"CNOT", 1, 0>>, <<"CNOT", 0, n>>, <<"SWAP", 0, 1>>}

RECURSIVE SeqsUpTo(_, _)
\* The sequences over S of length at most n.
SeqsUpTo(S, n) ==
    IF n = 0 THEN {<< >>}
    ELSE LET shorter == SeqsUpTo(S, n - 1)
         IN  shorter \cup {Append(s, x) : s \in shorter, x \in S}

LabelLists == SeqsUpTo(LabelInputs, MaxQubits) \ {<< >>}

\* ------------------------------------------------------------ simulate_circuit

VARIABLES
    initial_states,   \* argument: the labels
    gates_sequence,   \* argument: the operations, when the call fixes them
    taken,            \* number of operations the loop has taken
    qubits,           \* the local list of qubit vectors
    pc,               \* "create", "loop", "returned" or "raised"
    err,              \* the exception that ended the call, if any
    result            \* the returned list, << >> while nothing is returned

vars == <<initial_states, gates_sequence, taken, qubits, pc, err, result>>

\* Line 45: the list comprehension builds every qubit or raises at the first
\* label create_qubit rejects.
CreateQubits ==
    /\ pc = "create"
    /\ LET made == [i \in 1..Len(initial_states) |-> create_qubit(initial_states[i])]
           bad == {i \in 1..Len(initial_states) : made[i].err # NoError}
       IN  IF bad = {}
           THEN /\ qubits' = [i \in 1..Len(initial_states) |-> made[i].val]
                /\ pc' = "loop"
                /\ err' = err
           ELSE /\ qubits' = qubits
                /\ pc' = "raised"
                /\ err' = made[CHOOSE i \in bad : \A j \in bad : i <= j].err
    /\ UNCHANGED <<initial_states, gates_sequence, taken, result>>

\* Faulty variant of Outcome: the gate name is looked up before the list is indexed.
Outcome_GateFirst(qs, op) ==
    IF Len(op) = 2
    THEN IF op[2] \notin GateNames THEN Leaves(UnknownGate, qs)
         ELSE IF ~InRange(qs, op[1]) THEN Leaves(IndexOutOfRange, qs)
         ELSE Leaves(NoError, SetItem(qs, op[1], apply_gate(GetItem(qs, op[1]), op[2]).val))
    ELSE IF Len(op) = 3 /\ op[1] = "CNOT"
    THEN apply_cnot(qs, op[2], op[3])
    ELSE Leaves(UnsupportedOperation, qs)

\* Lines 49-58: what one pass of the loop body does with the operation op.
Outcome(qs, op) ==
    IF Len(op) = 2
    THEN \* line 51: qubits[qubit_idx] is read first, then the gate is looked up
         IF ~InRange(qs, op[1]) THEN Leaves(IndexOutOfRange, qs)
         ELSE LET applied == apply_gate(GetItem(qs, op[1]), op[2])
              IN  IF applied.err # NoError THEN Leaves(applied.err, qs)
                  ELSE Leaves(NoError, SetItem(qs, op[1], applied.val))
    ELSE IF Len(op) = 3 /\ op[1] = "CNOT"
    THEN apply_cnot(qs, op[2], op[3])
    ELSE Leaves(UnsupportedOperation, qs)

\* Faulty variant of Body: an exception is swallowed and the loop goes on.
Body_Swallow(op) ==
    /\ pc = "loop"
    /\ LET out == Outcome(qubits, op)
       IN  /\ qubits' = out.qubits
           /\ err' = out.err
           /\ pc' = "loop"
    /\ taken' = taken + 1
    /\ UNCHANGED <<initial_states, gates_sequence, result>>

\* The loop takes the operation op and runs the body on it; an exception
\* leaves the loop and the call.
Body(op) ==
    /\ pc = "loop"
    /\ LET out == Outcome(qubits, op)
       IN  /\ qubits' = out.qubits
           /\ err' = out.err
           /\ pc' = IF out.err = NoError THEN "loop" ELSE "raised"
    /\ taken' = taken + 1
    /\ UNCHANGED <<initial_states, gates_sequence, result>>

\* Lines 49-52
SingleQubitStep(op) == Len(op) = 2 /\ Body(op)

\* Lines 53-56
CnotStep(op) == Len(op) = 3 /\ op[1] = "CNOT" /\ Body(op)

\* Lines 57-58
UnsupportedStep(op) ==
    /\ ~(Len(op) = 2) /\ ~(Len(op) = 3 /\ op[1] = "CNOT")
    /\ Body(op)

\* Line 60: the loop is over
Return ==
    /\ pc = "loop"
    /\ result' = qubits
    /\ pc' = "returned"
    /\ UNCHANGED <<initial_states, gates_sequence, taken, qubits, err>>

Start ==
    /\ taken = 0
    /\ qubits = << >>
    /\ pc = "create"
    /\ err = NoError
    /\ result = << >>

\* Spec: the caller's sequence is not fixed in advance (gates_sequence is left
\* empty); each pass of the loop takes any operation a caller can have put
\* next, up to MaxOps of them, and the sequence can end after any pass.
Init ==
    /\ initial_states \in LabelLists
    /\ gates_sequence = << >>
    /\ Start

NextOperations == IF taken < MaxOps THEN Operations(Len(qubits)) ELSE {}

Next ==
    \/ CreateQubits
    \/ \E op \in NextOperations : SingleQubitStep(op)
    \/ \E op \in NextOperations : CnotStep(op)
    \/ \E op \in NextOperations : UnsupportedStep(op)
    \/ Return

Spec == Init /\ [][Next]_vars

\* SpecProg: the call fixes the whole sequence; the loop takes
\* gates_sequence[taken + 1] until the sequence is exhausted.
InitProg ==
    /\ initial_states \in LabelLists
    /\ gates_sequence \in SeqsUpTo(ProgOperations(Len(initial_states)), ProgLen)
    /\ Start

Exhausted == taken >= Len(gates_sequence)

NextProg ==
    \/ CreateQubits
    \/ ~Exhausted /\ SingleQubitStep(gates_sequence[taken + 1])
    \/ ~Exhausted /\ CnotStep(gates_sequence[taken + 1])
    \/ ~Exhausted /\ UnsupportedStep(gates_sequence[taken + 1])
    \/ Exhausted /\ Return

SpecProg == InitProg /\ [][NextProg]_vars

\* ------------------------------------------------------------ vocabulary of the properties

N == Len(qubits)
Ket0 == <<One, Zero>>
Ket1 == <<Zero, One>>
IsBasis(q) == q = Ket0 \/ q = Ket1
Flipped(q) == <<q[2], q[1]>>

\* |a0|^2 + |a1|^2
NormSquared(q) == Add(AbsSquared(q[1]), AbsSquared(q[2]))

\* The list line 45 builds from valid labels.
Created(labels) == [i \in 1..Len(labels) |-> create_qubit(labels[i]).val]

ValidLabels == \A i \in 1..Len(initial_states) : initial_states[i] \in Labels

\* ------------------------------------------------------------ C1

\* C1: for basis-state qubits at two distinct indices, CNOT leaves the control
\* as it is and flips the target exactly when the control is |1>.
C1_CnotTruthTable ==
    pc = "loop" =>
        \A c \in 0..(N - 1), t \in 0..(N - 1) :
            (c # t /\ IsBasis(qubits[c + 1]) /\ IsBasis(qubits[t + 1])) =>
                LET out == Outcome(qubits, <<"CNOT", c, t>>)
                IN  /\ out.err = NoError
                    /\ out.qubits[c + 1] = qubits[c + 1]
                    /\ out.qubits[t + 1] =
                           IF qubits[c + 1] = Ket1 THEN Flipped(qubits[t + 1])
                           ELSE qubits[t + 1]

\* ------------------------------------------------------------ C2

\* C2: the probabilities extracted from the states a completed run returns
\* sum to 1.
C2_ProbabilitiesSumToOne ==
    pc = "returned" => SumSeq(calculate_probabilities(result)) = One

\* ------------------------------------------------------------ C3

\* C3: a qubit has unit norm when it is created and right after a gate of
\* H, X, Z, S, T is applied to it, wherever in the sequence that happens
\* (stated of the gate the loop has just applied, at an index 0..n-1).
C3_UnitNorm ==
    pc = "loop" =>
        /\ taken = 0 => \A i \in 1..N : NormSquared(qubits[i]) = One
        /\ ( /\ taken > 0
             /\ Len(gates_sequence[taken]) = 2
             /\ gates_sequence[taken][1] \in 0..(N - 1) ) =>
               NormSquared(qubits[gates_sequence[taken][1] + 1]) = One

\* ------------------------------------------------------------ C4

\* The operation names a qubit index >= the number n of qubits.
RefersBeyond(op, n) ==
    \/ Len(op) = 2 /\ op[1] >= n
    \/ Len(op) = 3 /\ op[1] = "CNOT" /\ (op[2] >= n \/ op[3] >= n)

\* C4 as stated: every operation naming an index >= the qubit count fails with
\* IndexOutOfRange and leaves the list as it was, and a failed run returns
\* nothing.
C4_IndexOutOfRange ==
    /\ pc = "loop" =>
           \A op \in Operations(N) :
               RefersBeyond(op, N) =>
                   Outcome(qubits, op) = Leaves(IndexOutOfRange, qubits)
    /\ pc = "raised" => result = << >>

\* C4 amended: a single-qubit operation naming an index >= the qubit count, and
\* a CNOT naming one on a list of at least 2 qubits, fail with IndexOutOfRange
\* and leave the list as it was; a CNOT on a list of 1 qubit fails with
\* InsufficientQubits instead, the list again as it was; a failed run returns
\* nothing.
C4_IndexOutOfRangeAmended ==
    /\ pc = "loop" =>
           \A op \in Operations(N) :
               RefersBeyond(op, N) =>
                   Outcome(qubits, op) =
                       IF Len(op) = 3 /\ N < 2
                       THEN Leaves(InsufficientQubits, qubits)
                       ELSE Leaves(IndexOutOfRange, qubits)
    /\ pc = "raised" => result = << >>
    /\ IndexOutOfRange.exc \notin
           {UnknownInitialState.exc, UnknownGate.exc,
            UnsupportedOperation.exc, InsufficientQubits.exc}

\* A run of 2 or more qubits ended by the out-of-range error, its list intact.
C4_Witness ==
    /\ pc = "raised" /\ err = IndexOutOfRange
    /\ taken = 1 /\ N >= 2
    /\ qubits = Created(initial_states)
    /\ result = << >>

\* ------------------------------------------------------------ C5

RECURSIVE BitsValue(_)
\* b0*2^(n-1) + ... + b(n-1)*2^0
BitsValue(bits) ==
    IF bits = << >> THEN 0
    ELSE 2 * BitsValue(SubSeq(bits, 1, Len(bits) - 1)) + bits[Len(bits)]

RECURSIVE Pow2(_)
Pow2(n) == IF n = 0 THEN 1 ELSE 2 * Pow2(n - 1)

C6_BellProgram ==
    ( /\ initial_states = <<"0", "1">>
      /\ gates_sequence = << <<0, "H">>, <<"CNOT", 0, 1>> >>
      /\ pc = "returned" ) =>
        result = << <<InvSqrt2, InvSqrt2>>, <<Zero, One>> >>

\* ------------------------------------------------------------ C7

\* The operation is invalid for n qubits: an index out of range, an unknown
\* gate name, a CNOT on fewer than 2 qubits, or an unsupported tuple.
Invalid(op, n) ==
    IF Len(op) = 2 THEN op[1] \notin (-n)..(n - 1) \/ op[2] \notin GateNames
    ELSE IF Len(op) = 3 /\ op[1] = "CNOT"
    THEN n < 2 \/ op[2] \notin (-n)..(n - 1) \/ op[3] \notin (-n)..(n - 1)
    ELSE TRUE

\* The error of an invalid operation.
ErrorOf(op, n) ==
    IF Len(op) = 2
    THEN IF op[1] \notin (-n)..(n - 1) THEN IndexOutOfRange ELSE UnknownGate
    ELSE IF Len(op) = 3 /\ op[1] = "CNOT"
    THEN IF n < 2 THEN InsufficientQubits ELSE IndexOutOfRange
    ELSE UnsupportedOperation

\* The position of the first invalid operation, 0 when there is none.
FirstInvalid(ops, n) ==
    LET bad == {k \in 1..Len(ops) : Invalid(ops[k], n)}
    IN  IF bad = {} THEN 0 ELSE CHOOSE k \in bad : \A j \in bad : k <= j

RECURSIVE LeftFold(_, _)
\* The operations applied one after the other, from the left.
LeftFold(qs, ops) ==
    IF ops = << >> THEN qs
    ELSE LeftFold(Outcome(qs, Head(ops)).qubits, Tail(ops))

\* C7: an invalid label fails the run before any operation; otherwise the run
\* applies the operations in order up to the first invalid one, fails there
\* with its error and returns nothing, or, when none is invalid, returns the
\* left fold of all of them.
C7_FailFastInOrder ==
    LET n == Len(initial_states)
        k == FirstInvalid(gates_sequence, n)
        start == Created(initial_states)
        before(j) == LeftFold(start, SubSeq(gates_sequence, 1, j))
    IN  /\ ~ValidLabels =>
               /\ pc \in {"create", "raised"}
               /\ taken = 0 /\ qubits = << >> /\ result = << >>
               /\ pc = "raised" => err = UnknownInitialState
        /\ (ValidLabels /\ pc = "loop") =>
               /\ k = 0 \/ taken < k
               /\ qubits = before(taken)
               /\ err = NoError /\ result = << >>
        /\ (ValidLabels /\ pc = "raised") =>
               /\ k # 0 /\ taken = k
               /\ err = ErrorOf(gates_sequence[k], n)
               /\ qubits = before(k - 1)
               /\ result = << >>
        /\ (ValidLabels /\ pc = "returned") =>
               /\ k = 0 /\ taken = Len(gates_sequence)
               /\ result = before(Len(gates_sequence))
               /\ err = NoError

\* A run that failed at its second operation, the first applied, the third not;
\* or one that returned after two operations that changed the list.
C7_Witness ==
    \/ /\ ValidLabels /\ pc = "raised"
       /\ taken = 2 /\ Len(gates_sequence) = 2
       /\ qubits # Created(initial_states)
    \/ /\ pc = "returned" /\ taken = 2
       /\ result # Created(initial_states)
       /\ gates_sequence[1] # gates_sequence[2]

\* ------------------------------------------------------------ C8

C9_NegativeIndices ==
    (pc = "loop" /\ NextOperations # {}) =>
        LET beyond(i) == i < -N \/ i >= N
        IN  /\ \A op \in NextOperations \cap SingleQubitOps(N) :
                   LET i == op[1]
                       done == Outcome(qubits, op)
                   IN  /\ done.err = IndexOutOfRange <=> beyond(i)
                       /\ (i \in (-N)..(-1) /\ op[2] \in GateNames) =>
                              done = Leaves(NoError,
                                            [qubits EXCEPT ![N + i + 1] =
                                                Dot(gates(op[2]), qubits[N + i + 1])])
            /\ \A op \in NextOperations \cap TwoQubitOps(N) :
                   LET c == op[2]
                       t == op[3]
                       done == Outcome(qubits, op)
                   IN  /\ done.err = IndexOutOfRange <=>
                              (N >= 2 /\ (beyond(c) \/ beyond(t)))
                       /\ (N >= 2 /\ ~beyond(c) /\ ~beyond(t)) =>
                              /\ done.err = NoError
                              /\ (c < 0 \/ t < 0) =>
                                     done = Outcome(qubits,
                                                    <<"CNOT",
                                                      IF c < 0 THEN N + c ELSE c,
                                                      IF t < 0 THEN N + t ELSE t>>)

\* The loop has taken (-1, H) on three qubits created as 0, 1, +: the list is
\* the one that operation leaves, the last qubit H applied to what was created,
\* the others as created.
C9_Witness ==
    /\ pc = "loop" /\ taken = 1 /\ N = 3
    /\ initial_states = <<"0", "1", "+">>
    /\ qubits = Outcome(Created(initial_states), <<-1, "H">>).qubits
    /\ qubits = <<Ket0, Ket1, Ket0>>

\* ------------------------------------------------------------ C10

\* C10: a CNOT with control = target on 2 or more qubits is not rejected: the
\* qubit (q0, q1) becomes (q1*q1, q1*q0), every other qubit stays, and the loop
\* goes on.
C10_SelfCnot ==
    (pc = "loop" /\ N >= 2) =>
        \A c \in 0..(N - 1) :
            LET q == qubits[c + 1]
            IN  Outcome(qubits, <<"CNOT", c, c>>) =
                    Leaves(NoError,
                           [qubits EXCEPT ![c + 1] = <<Mul(q[2], q[2]), Mul(q[2], q[1])>>])

\* CNOT(0, 0) has acted on the first of three qubits created as -: it is
\* (1/2, -1/2), the others are as created, and the loop goes on.
C10_Witness ==
    /\ pc = "loop" /\ taken = 1 /\ N = 3
    /\ initial_states = <<"-", "-", "-">>
    /\ qubits[1] = <<Raw(1, 0, 0, 0, 2), Raw(-1, 0, 0, 0, 2)>>
    /\ qubits[2] = Created(initial_states)[2]
    /\ qubits[3] = Created(initial_states)[3]
====
